---- MODULE Spec2Model ----
(***************************************************************************)
(* A model of simpletd's TdJson client (src/src/simpletd/simpletd.py):     *)
(* the single Python thread that calls execute / invoke / send / receive / *)
(* login, the engine's message stream read by td_receive, the requests     *)
(* handed to td_send, the log callback and the KeyboardInterrupt signal.   *)
(***************************************************************************)
EXTENDS Integers, Sequences, FiniteSets, TLC

VARIABLES
    pc,          \* where the Python thread is (see Pcs)
    api_id,      \* self.api_id
    api_hash,    \* self.api_hash
    client_id,   \* self.client_id
    sent,        \* the requests passed to td_send, in submission order
    event,       \* the local `event` of _handle_authentication / wait
    extra,       \* the parameter `extra` of wait: the awaited id
    prompt,      \* the input() call the thread is blocked in
    answers,     \* what input() returned since the loop's last poll
    result,      \* what the last finished call returned to its caller
    returned,    \* the method that returned last
    exc,         \* the exception that left the client, if any
    exit_status, \* the process's exit status, once it has exited
    printed,     \* the last line print() wrote
    released,    \* how many times the session handle has been released
    discarded,   \* how many messages wait() polled and dropped without returning them
    trace,       \* the authorization states the running loop has polled, in order
    interrupted, \* where the thread was when KeyboardInterrupt was raised
    log_level    \* the severity of the log callback call that ended the process

vars == << pc, api_id, api_hash, client_id, sent, event, extra, prompt, answers,
           result, returned, exc, exit_status, printed, released, discarded,
           trace, interrupted, log_level >>

----------------------------------------------------------------------------
(* Bounds of the model *)

\* td_send calls in one run of the model
MaxSent == 3
\* messages wait() may drop before the count of them stops growing
MaxDiscarded == 1
\* authorization states of one loop that `trace` records in full
MaxTrace == 3

(* Program constants *)

\* the handle td_create_client_id returns for the first client
ClientId == 1
\* max_verbosity_level given to td_set_log_message_callback
MaxLogVerbosity == 2

----------------------------------------------------------------------------
(* Values *)

\* Python strings are sequences of one-character strings.
EmptyStr == << >>
Inputs == { EmptyStr, <<"7">> }

\* Correlation ids create_extra_id may produce (hexlify of os.urandom).
Ids == { "id1", "id2" }

\* The shapes of a message's "@extra": absent, {"id": <id>}, or a truthy
\* value that is no dict (a caller-chosen @extra the engine echoes verbatim).
NoExtra == "none"
BadExtra == "scalar"
Extras == Ids \cup { NoExtra, BadExtra }

WaitStates == { "WaitTdlibParameters", "WaitPhoneNumber", "WaitEmailAddress",
                "WaitEmailCode", "WaitCode", "WaitRegistration", "WaitPassword" }
ExitStates == { "Closed", "WaitPremiumPurchase", "Ready" }
OtherStates == { "Closing" }
AuthStates == WaitStates \cup ExitStates \cup OtherStates

Msg(type, auth, ex) == [ type |-> type, auth |-> auth, extra |-> ex ]
None == Msg("None", "-", NoExtra)
Undecodable == Msg("undecodable", "-", NoExtra)

\* What the engine may put on the stream td_receive reads: updates, answers
\* to requests that carried no @extra, answers echoing an @extra, and bytes
\* that do not decode.
EngineMessages ==
       { Msg("updateAuthorizationState", s, NoExtra) : s \in AuthStates }
  \cup { Msg("updateOption", "-", NoExtra), Msg("error", "-", NoExtra) }
  \cup { Msg("ok", "-", x) : x \in Ids \cup { BadExtra } }
  \cup { Msg("updateAuthorizationState", "Ready", x) : x \in Ids }
  \cup { Undecodable }

\* td_receive(timeout): the next message of the stream, or nothing when the
\* timeout passes first.
td_receive == EngineMessages \cup { None }

\* A query dict: its "@type", its "@extra" and the fields the client fills in.
Query(type, ex, id, hash, v1, v2) ==
    [ type |-> type, extra |-> ex, api_id |-> id, api_hash |-> hash,
      value |-> v1, value2 |-> v2 ]

\* The queries a caller passes to send / invoke / execute, with or without
\* an "@extra" of the caller's own.
UserQueries ==
    { Query("getMe", x, 0, EmptyStr, EmptyStr, EmptyStr) : x \in { NoExtra, BadExtra } }

\* idle: outside every method; login: in login() before its try block;
\* auth_poll: at self.receive() in the loop; auth_event: `event` bound, before
\* the branch on it; auth_input: blocked in input(); auth_send: at the branch's
\* self.send(); wait: at self.receive() in wait(); raised: an exception left
\* the client; exited: the process has ended.
Pcs == { "idle", "login", "auth_poll", "auth_event", "auth_input", "auth_send",
         "wait", "raised", "exited" }
AuthPcs == { "auth_poll", "auth_event", "auth_input", "auth_send" }

Prompts == { "-", "api_id", "api_hash", "phone_number", "email_address",
             "email_code", "code", "first_name", "last_name", "password" }

----------------------------------------------------------------------------
(* Pure helpers *)

\* Python truthiness of an int and of a str.
TruthyInt(n) == n # 0
TruthyStr(s) == s # EmptyStr

Digits == { "0", "1", "2", "3", "4", "5", "6", "7", "8", "9" }
DigitValue(c) ==
    CASE c = "0" -> 0 [] c = "1" -> 1 [] c = "2" -> 2 [] c = "3" -> 3
      [] c = "4" -> 4 [] c = "5" -> 5 [] c = "6" -> 6 [] c = "7" -> 7
      [] c = "8" -> 8 [] c = "9" -> 9

RECURSIVE DecimalValue(_)
DecimalValue(s) ==
    IF s = << >> THEN 0
    ELSE 10 * DecimalValue(SubSeq(s, 1, Len(s) - 1)) + DigitValue(s[Len(s)])

\* int(input(...)): the number a string of decimal digits spells, ValueError
\* for the empty string and for any other character.
PyInt(s) ==
    IF s # << >> /\ \A i \in 1..Len(s) : s[i] \in Digits
    THEN [ raised |-> FALSE, value |-> DecimalValue(s) ]
    ELSE [ raised |-> TRUE, value |-> 0 ]

\* create_extra_id: 9 random bytes, hex-encoded; any id may come out.
create_extra_id == Ids

\* receive() handing undecodable bytes on as if they were a message.
receive_Swallow(bytes) ==
    [ raised |-> FALSE, value |-> bytes ]

\* receive(): None when td_receive gave nothing, else json.loads of the
\* bytes, which raises when they do not decode.
receive(bytes) ==
    [ raised |-> bytes = Undecodable, value |-> bytes ]

\* The table with the two code states' requests exchanged.
RequestType_CodesSwapped(state) ==
    CASE state = "WaitTdlibParameters" -> "setTdlibParameters"
      [] state = "WaitPhoneNumber" -> "setAuthenticationPhoneNumber"
      [] state = "WaitEmailAddress" -> "setAuthenticationEmailAddress"
      [] state = "WaitEmailCode" -> "checkAuthenticationCode"
      [] state = "WaitCode" -> "checkAuthenticationEmailCode"
      [] state = "WaitRegistration" -> "registerUser"
      [] state = "WaitPassword" -> "checkAuthenticationPassword"

\* The request each wait-state is answered with.
RequestType(state) ==
    CASE state = "WaitTdlibParameters" -> "setTdlibParameters"
      [] state = "WaitPhoneNumber" -> "setAuthenticationPhoneNumber"
      [] state = "WaitEmailAddress" -> "setAuthenticationEmailAddress"
      [] state = "WaitEmailCode" -> "checkAuthenticationEmailCode"
      [] state = "WaitCode" -> "checkAuthenticationCode"
      [] state = "WaitRegistration" -> "registerUser"
      [] state = "WaitPassword" -> "checkAuthenticationPassword"

\* The first input() of each wait-state's branch.
FirstPrompt(state) ==
    CASE state = "WaitTdlibParameters" -> "api_id"
      [] state = "WaitPhoneNumber" -> "phone_number"
      [] state = "WaitEmailAddress" -> "email_address"
      [] state = "WaitEmailCode" -> "email_code"
      [] state = "WaitCode" -> "code"
      [] state = "WaitRegistration" -> "first_name"
      [] state = "WaitPassword" -> "password"

Nth(s, i) == IF i <= Len(s) THEN s[i] ELSE EmptyStr

\* The dict a branch of _handle_authentication passes to send().
AuthQuery(state, ans, id, hash) ==
    IF state = "WaitTdlibParameters"
    THEN Query(RequestType(state), NoExtra, id, hash, EmptyStr, EmptyStr)
    ELSE Query(RequestType(state), NoExtra, 0, EmptyStr, Nth(ans, 1), Nth(ans, 2))

\* td_send(client_id, query_json): the engine's record of what was submitted.
td_send(requests, handle, query) ==
    Append(requests,
           [ type |-> query.type, extra |-> query.extra, api_id |-> query.api_id,
             api_hash |-> query.api_hash, value |-> query.value,
             value2 |-> query.value2, client_id |-> handle ])

\* send() tagging the query the way invoke() does.
send_Tagging(requests, handle, query) ==
    td_send(requests, handle, [ query EXCEPT !.extra = "id1" ])

\* send() submitting the query a second time on its own.
send_Resubmitting(requests, handle, query) ==
    td_send(td_send(requests, handle, query), handle, query)

\* send(): the query goes to td_send as the caller built it.
send(requests, handle, query) == td_send(requests, handle, query)

\* invoke() submitting under a handle of its own.
invoke_OwnHandle(requests, handle, query, id) ==
    td_send(requests, handle + 1, [ query EXCEPT !.extra = id ])

\* invoke(), up to its call of wait(): the query is tagged with a fresh id.
invoke(requests, handle, query, id) ==
    td_send(requests, handle, [ query EXCEPT !.extra = id ])

\* wait()'s test without the comparison of the ids.
WaitTest_AnyId(ev, awaited) ==
    IF ev = None \/ ev.extra = NoExtra THEN "skip"
    ELSE IF ev.extra = BadExtra THEN "TypeError"
    ELSE "match"

\* wait()'s test taking a matching message of a push type for an event to skip.
WaitTest_ResponsesOnly(ev, awaited) ==
    IF ev = None \/ ev.extra = NoExtra THEN "skip"
    ELSE IF ev.extra = BadExtra THEN "TypeError"
    ELSE IF ev.extra = awaited /\ ev.type # "updateAuthorizationState" THEN "match"
    ELSE "skip"

\* wait()'s test: event and event.get("@extra") and event["@extra"]["id"] == extra.
\* "match", "skip", or "TypeError" when @extra is truthy and no dict.
WaitTest(ev, awaited) ==
    IF ev = None \/ ev.extra = NoExtra THEN "skip"
    ELSE IF ev.extra = BadExtra THEN "TypeError"
    ELSE IF ev.extra = awaited THEN "match"
    ELSE "skip"

\* wait() with the id it returned for still awaited afterwards.
Returned_StillAwaited(awaited) == awaited

\* What is awaited once wait() has returned: nothing, its parameter `extra`
\* having gone with its frame, and nothing else holds the id.
Returned(awaited) == NoExtra

\* on_log_message_callback is a local of _setup_logging and nothing keeps a
\* reference to it once _setup_logging has returned.
CallbackReferenced == FALSE

\* What a call of the registered callback can do: run the function's body,
\* or, the ctypes thunk having been freed, crash the process.
CallbackOutcomes == IF CallbackReferenced THEN { "run" } ELSE { "run", "crash" }

----------------------------------------------------------------------------
(* The state after TdJson(api_id, api_hash) *)

Init ==
    /\ pc = "idle"
    /\ api_id \in { 0, 7 }
    /\ api_hash \in { EmptyStr, <<"h">> }
    /\ client_id = ClientId
    /\ sent = << >>
    /\ event = None
    /\ extra = NoExtra
    /\ prompt = "-"
    /\ answers = << >>
    /\ result = None
    /\ returned = "-"
    /\ exc = "-"
    /\ exit_status = "running"
    /\ printed = ""
    /\ released = 0
    /\ discarded = 0
    /\ trace = << >>
    /\ interrupted = "-"
    /\ log_level = -1

----------------------------------------------------------------------------
(* The engine *)

\* The process ends with `status`: its frames and their locals are gone, what
\* it printed and what the engine was sent remain.
ProcessExit(status) ==
    /\ pc' = "exited"
    /\ exit_status' = status
    /\ event' = None
    /\ extra' = NoExtra
    /\ prompt' = "-"
    /\ answers' = << >>
    /\ result' = None
    /\ returned' = "-"
    /\ trace' = << >>
    /\ UNCHANGED << api_id, api_hash, client_id, sent, released, discarded >>

\* The engine calls the registered log callback with a severity.
\* on_log_message_callback: sys.exit(message) when the severity is 0.
LogCallback ==
    /\ pc \notin { "exited", "raised" }
    /\ \E verbosity_level \in 0..MaxLogVerbosity, outcome \in CallbackOutcomes :
         IF outcome = "crash"
         THEN /\ ProcessExit("SIGSEGV")
              /\ log_level' = verbosity_level
              /\ UNCHANGED << exc, printed, interrupted >>
         ELSE IF verbosity_level = 0
         THEN /\ ProcessExit("1")
              /\ log_level' = verbosity_level
              /\ exc' = "SystemExit"
              /\ UNCHANGED << printed, interrupted >>
         ELSE UNCHANGED vars

----------------------------------------------------------------------------
(* The caller's calls outside login *)

\* execute(query): td_execute answers synchronously, or with nothing.
Execute ==
    /\ pc = "idle"
    /\ \E query \in UserQueries, reply \in { None, Msg("ok", "-", NoExtra) } :
         result' = reply
    /\ returned' = "execute"
    /\ UNCHANGED << pc, api_id, api_hash, client_id, sent, event, extra,
                    prompt, answers, exc, exit_status, printed,
                    released, discarded, trace,
                    interrupted, log_level >>

\* send(query)
Send ==
    /\ pc = "idle"
    /\ Len(sent) < MaxSent
    /\ \E query \in UserQueries : sent' = send(sent, client_id, query)
    /\ result' = None
    /\ returned' = "send"
    /\ UNCHANGED << pc, api_id, api_hash, client_id, event, extra, prompt,
                    answers, exc, exit_status, printed, released, discarded, trace,
                    interrupted, log_level >>

\* receive()
Receive ==
    /\ pc = "idle"
    /\ \E bytes \in td_receive :
         IF receive(bytes).raised
         THEN /\ pc' = "raised"
              /\ exc' = "JSONDecodeError"
              /\ UNCHANGED << result, returned >>
         ELSE /\ result' = receive(bytes).value
              /\ returned' = "receive"
              /\ UNCHANGED << pc, exc >>
    /\ UNCHANGED << api_id, api_hash, client_id, sent, event, extra, prompt,
                    answers, exit_status, printed, released, discarded, trace,
                    interrupted, log_level >>

\* invoke(query), up to the call of wait(): tag, submit, start waiting.
Invoke ==
    /\ pc = "idle"
    /\ Len(sent) < MaxSent
    /\ \E query \in UserQueries, id \in create_extra_id :
         /\ sent' = invoke(sent, client_id, query, id)
         /\ extra' = id
    /\ pc' = "wait"
    /\ event' = None
    /\ result' = None
    /\ returned' = "-"
    /\ UNCHANGED << api_id, api_hash, client_id, prompt, answers, exc,
                    exit_status, printed, released, discarded, trace,
                    interrupted, log_level >>

\* One iteration of wait()'s loop: poll, test, return the event or go on.
Wait ==
    /\ pc = "wait"
    /\ \E bytes \in td_receive :
         IF receive(bytes).raised
         THEN /\ pc' = "raised"
              /\ exc' = "JSONDecodeError"
              /\ UNCHANGED << event, extra, result, returned, discarded >>
         ELSE CASE WaitTest(receive(bytes).value, extra) = "match" ->
                   /\ pc' = "idle"
                   /\ result' = receive(bytes).value
                   /\ returned' = "invoke"
                   /\ event' = None
                   /\ extra' = Returned(extra)
                   /\ UNCHANGED << exc, discarded >>
              [] WaitTest(receive(bytes).value, extra) = "TypeError" ->
                   /\ pc' = "raised"
                   /\ exc' = "TypeError"
                   /\ event' = receive(bytes).value
                   /\ UNCHANGED << extra, result, returned, discarded >>
              [] OTHER ->
                   /\ event' = receive(bytes).value
                   /\ discarded' = IF receive(bytes).value # None /\ discarded < MaxDiscarded
                                   THEN discarded + 1 ELSE discarded
                   /\ UNCHANGED << pc, exc, extra, result, returned >>
    /\ UNCHANGED << api_id, api_hash, client_id, sent, prompt, answers,
                    exit_status, printed, released, trace, interrupted, log_level >>

----------------------------------------------------------------------------
(* login() and _handle_authentication() *)

\* The caller calls login().
Login ==
    /\ pc = "idle"
    /\ pc' = "login"
    /\ result' = None
    /\ returned' = "-"
    /\ UNCHANGED << api_id, api_hash, client_id, sent, event, extra, prompt,
                    answers, exc, exit_status, printed, released, discarded, trace,
                    interrupted, log_level >>

\* login() before its try block: send getOption, print the banner, enter
\* _handle_authentication.
LoginStart ==
    /\ pc = "login"
    /\ Len(sent) < MaxSent
    /\ sent' = send(sent, client_id,
                    Query("getOption", NoExtra, 0, EmptyStr, EmptyStr, EmptyStr))
    /\ printed' = "Press Ctrl+C to cancel at any time."
    /\ pc' = "auth_poll"
    /\ event' = None
    /\ answers' = << >>
    /\ trace' = << >>
    /\ UNCHANGED << api_id, api_hash, client_id, extra, prompt, result, returned,
                    exc, exit_status, released, discarded, interrupted, log_level >>

\* `trace` with one more authorization state; a trace that would grow past
\* MaxTrace is forgotten and stays << "..." >>, so any other trace is the whole
\* history of the loop.
Recorded(tr, ev) ==
    IF ev = None \/ ev.type # "updateAuthorizationState" THEN tr
    ELSE IF tr # << "..." >> /\ Len(tr) < MaxTrace THEN Append(tr, ev.auth)
    ELSE << "..." >>

\* event = self.receive() in the loop.
AuthPoll ==
    /\ pc = "auth_poll"
    /\ \E bytes \in td_receive :
         IF receive(bytes).raised
         THEN /\ pc' = "raised"
              /\ exc' = "JSONDecodeError"
              /\ UNCHANGED << event, trace >>
         ELSE /\ pc' = "auth_event"
              /\ event' = receive(bytes).value
              /\ trace' = Recorded(trace, receive(bytes).value)
              /\ UNCHANGED exc
    /\ UNCHANGED << api_id, api_hash, client_id, sent, extra, prompt, answers,
                    result, returned, exit_status, printed, released, discarded,
                    interrupted, log_level >>

\* The if/elif chain on auth_type with Closed taken for a state to skip.
Branch_ClosedContinues(auth_type, id, hash) ==
    IF auth_type = "Closed" THEN "poll"
    ELSE IF auth_type = "WaitTdlibParameters"
    THEN IF ~TruthyInt(id) \/ ~TruthyStr(hash) THEN "input" ELSE "send"
    ELSE IF auth_type = "WaitPhoneNumber" THEN "input"
    ELSE IF auth_type = "WaitPremiumPurchase" THEN "return"
    ELSE IF auth_type \in { "WaitEmailAddress", "WaitEmailCode", "WaitCode",
                            "WaitRegistration", "WaitPassword" } THEN "input"
    ELSE IF auth_type = "Ready" THEN "return"
    ELSE "poll"

\* The chain with WaitPremiumPurchase left to the next poll.
Branch_PremiumContinues(auth_type, id, hash) ==
    IF auth_type = "Closed" THEN "return"
    ELSE IF auth_type = "WaitTdlibParameters"
    THEN IF ~TruthyInt(id) \/ ~TruthyStr(hash) THEN "input" ELSE "send"
    ELSE IF auth_type = "WaitPhoneNumber" THEN "input"
    ELSE IF auth_type = "WaitPremiumPurchase" THEN "poll"
    ELSE IF auth_type \in { "WaitEmailAddress", "WaitEmailCode", "WaitCode",
                            "WaitRegistration", "WaitPassword" } THEN "input"
    ELSE IF auth_type = "Ready" THEN "return"
    ELSE "poll"

\* The chain with Ready left to the next poll.
Branch_ReadyContinues(auth_type, id, hash) ==
    IF auth_type = "Closed" THEN "return"
    ELSE IF auth_type = "WaitTdlibParameters"
    THEN IF ~TruthyInt(id) \/ ~TruthyStr(hash) THEN "input" ELSE "send"
    ELSE IF auth_type = "WaitPhoneNumber" THEN "input"
    ELSE IF auth_type = "WaitPremiumPurchase" THEN "return"
    ELSE IF auth_type \in { "WaitEmailAddress", "WaitEmailCode", "WaitCode",
                            "WaitRegistration", "WaitPassword" } THEN "input"
    ELSE "poll"

\* The if/elif chain on auth_type: "return" (out of the loop and of login),
\* "input" (the branch's first input()), "send" (the branch's send()), or
\* "poll" (no branch: the next iteration).
Branch(auth_type, id, hash) ==
    IF auth_type = "Closed" THEN "return"
    ELSE IF auth_type = "WaitTdlibParameters"
    THEN IF ~TruthyInt(id) \/ ~TruthyStr(hash) THEN "input" ELSE "send"
    ELSE IF auth_type = "WaitPhoneNumber" THEN "input"
    ELSE IF auth_type = "WaitPremiumPurchase" THEN "return"
    ELSE IF auth_type \in { "WaitEmailAddress", "WaitEmailCode", "WaitCode",
                            "WaitRegistration", "WaitPassword" } THEN "input"
    ELSE IF auth_type = "Ready" THEN "return"
    ELSE "poll"

\* The loop ending on an error response.
Dispatch_ErrorEndsLoop(ev, id, hash) ==
    IF ev = None THEN "poll"
    ELSE IF ev.type = "error" THEN "return"
    ELSE IF ev.type # "updateAuthorizationState" THEN "poll"
    ELSE Branch(ev.auth, id, hash)

\* Where the loop goes with `event` bound: `if not event: continue`, then the
\* chain for an updateAuthorizationState, the next iteration for anything else.
Dispatch(ev, id, hash) ==
    IF ev = None THEN "poll"
    ELSE IF ev.type # "updateAuthorizationState" THEN "poll"
    ELSE Branch(ev.auth, id, hash)

\* The line the loop prints on the way there.
DispatchPrint(ev, id, hash, before) ==
    IF ev = None THEN before
    ELSE IF ev.type # "updateAuthorizationState" THEN "Receive: "
    ELSE IF ev.auth = "Closed" THEN "Authorization state closed."
    ELSE IF ev.auth = "WaitTdlibParameters" /\ (~TruthyInt(id) \/ ~TruthyStr(hash))
    THEN "You MUST obtain your own api_id and api_hash at https://my.telegram.org"
    ELSE IF ev.auth = "WaitPremiumPurchase"
    THEN "Telegram Premium subscription is required."
    ELSE IF ev.auth = "Ready" THEN "Authorization complete! You are now logged in."
    ELSE before

\* login() with a value of its own for the unsupported ending.
LoginResult_Unsupported(state) ==
    IF state = "WaitPremiumPurchase" THEN Msg("unsupported", "-", NoExtra) ELSE None

\* What login() returns to its caller when the loop ends on `state`: the loop
\* is left by `break` or a bare `return`, and login (-> None) returns nothing.
LoginResult(state) == None

\* The branch on `event`, up to the branch's first input() or its send().
\* The loop binds `event` anew before it reads it again, and the branch's
\* locals likewise: an iteration that ends leaves them unbound here.
AuthBranch ==
    /\ pc = "auth_event"
    /\ printed' = DispatchPrint(event, api_id, api_hash, printed)
    /\ CASE Dispatch(event, api_id, api_hash) = "poll" ->
              /\ pc' = "auth_poll"
              /\ event' = None
              /\ UNCHANGED << prompt, result, returned, trace >>
         [] Dispatch(event, api_id, api_hash) = "return" ->
              /\ pc' = "idle"
              /\ result' = LoginResult(event.auth)
              /\ returned' = "login"
              /\ event' = None
              /\ trace' = << >>
              /\ UNCHANGED prompt
         [] Dispatch(event, api_id, api_hash) = "input" ->
              /\ pc' = "auth_input"
              /\ prompt' = FirstPrompt(event.auth)
              /\ UNCHANGED << event, result, returned, trace >>
         [] Dispatch(event, api_id, api_hash) = "send" ->
              /\ pc' = "auth_send"
              /\ UNCHANGED << event, prompt, result, returned, trace >>
    /\ UNCHANGED << api_id, api_hash, client_id, sent, extra, answers, exc,
                    exit_status, released, discarded, interrupted, log_level >>

\* input() returns what the user typed.
AuthInput ==
    /\ pc = "auth_input"
    /\ \E typed \in Inputs :
         /\ answers' = Append(answers, typed)
         /\ CASE prompt = "api_id" ->
                   IF PyInt(typed).raised
                   THEN /\ pc' = "raised"
                        /\ exc' = "ValueError"
                        /\ UNCHANGED << api_id, api_hash, prompt >>
                   ELSE /\ api_id' = PyInt(typed).value
                        /\ prompt' = "api_hash"
                        /\ UNCHANGED << pc, exc, api_hash >>
              [] prompt = "api_hash" ->
                   /\ api_hash' = typed
                   /\ pc' = "auth_send"
                   /\ prompt' = "-"
                   /\ UNCHANGED << exc, api_id >>
              [] prompt = "first_name" ->
                   /\ prompt' = "last_name"
                   /\ UNCHANGED << pc, exc, api_id, api_hash >>
              [] OTHER ->
                   /\ pc' = "auth_send"
                   /\ prompt' = "-"
                   /\ UNCHANGED << exc, api_id, api_hash >>
    /\ UNCHANGED << client_id, sent, event, extra, result, returned, exit_status,
                    printed, released, discarded, trace, interrupted, log_level >>

\* The branch's self.send(...), then back to the top of the loop.
AuthSend ==
    /\ pc = "auth_send"
    /\ Len(sent) < MaxSent
    /\ sent' = send(sent, client_id, AuthQuery(event.auth, answers, api_id, api_hash))
    /\ printed' = IF event.auth = "WaitTdlibParameters"
                  THEN "Setting TDLib parameters..." ELSE printed
    /\ pc' = "auth_poll"
    /\ event' = None
    /\ answers' = << >>
    /\ UNCHANGED << api_id, api_hash, client_id, extra, prompt, result, returned,
                    exc, exit_status, released, discarded, trace, interrupted,
                    log_level >>

\* Whether a KeyboardInterrupt raised at `at` reaches login's except clause,
\* which covers the call of _handle_authentication only.
InterruptCaught(at) == at \in AuthPcs

\* login's except clause exiting with an error status.
CancelStatus_Error == "1"

\* The status login's except clause passes to sys.exit.
CancelStatus == "0"

\* Ctrl+C while the thread is inside a method of the client.
Interrupt ==
    /\ pc \in AuthPcs \cup { "login", "wait" }
    /\ interrupted' = pc
    /\ IF InterruptCaught(pc)
       THEN /\ printed' = "Authentication canceled by user."
            /\ ProcessExit(CancelStatus)
            /\ exc' = "SystemExit"
            /\ UNCHANGED log_level
       ELSE /\ pc' = "raised"
            /\ exc' = "KeyboardInterrupt"
            /\ UNCHANGED << printed, exit_status, api_id, api_hash, client_id,
                            sent, event, extra, prompt, answers, result,
                            returned, released, discarded, trace, log_level >>

----------------------------------------------------------------------------

Next ==
    \/ LogCallback
    \/ Execute
    \/ Send
    \/ Receive
    \/ Invoke
    \/ Wait
    \/ Login
    \/ LoginStart
    \/ AuthPoll
    \/ AuthBranch
    \/ AuthInput
    \/ AuthSend
    \/ Interrupt

Spec == Init /\ [][Next]_vars

\* A caller that only logs in.
NextLogin ==
    \/ LogCallback
    \/ Login
    \/ LoginStart
    \/ AuthPoll
    \/ AuthBranch
    \/ AuthInput
    \/ AuthSend
    \/ Interrupt

SpecLogin == Init /\ [][NextLogin]_vars

\* The same caller, with the thread of login() running on whenever it can take
\* a step and every input() returning.
SpecLoginFair ==
    /\ Init
    /\ [][NextLogin]_vars
    /\ WF_vars(LoginStart)
    /\ WF_vars(AuthPoll)
    /\ WF_vars(AuthBranch)
    /\ WF_vars(AuthInput)
    /\ WF_vars(AuthSend)

\* A caller that uses the request/response calls and never logs in.
NextRouter ==
    \/ LogCallback
    \/ Execute
    \/ Send
    \/ Receive
    \/ Invoke
    \/ Wait
    \/ Interrupt

SpecRouter == Init /\ [][NextRouter]_vars

TypeOK ==
    /\ pc \in Pcs
    /\ api_id \in Nat
    /\ client_id = ClientId
    /\ Len(sent) <= MaxSent
    /\ extra \in Extras
    /\ prompt \in Prompts
    /\ discarded \in 0..MaxDiscarded
    /\ Len(trace) <= MaxTrace
    /\ released \in Nat
    /\ log_level \in -1..MaxLogVerbosity
    /\ interrupted \in Pcs \cup { "-" }
    /\ exit_status \in { "running", "0", "1", "SIGSEGV" }

----------------------------------------------------------------------------
(* Properties *)

IsAuthEvent(ev) == ev # None /\ ev.type = "updateAuthorizationState"
IsWaitEvent(ev) == IsAuthEvent(ev) /\ ev.auth \in WaitStates

\* `after` is `before` with exactly one more request at its end.
OneMore(before, after) ==
    /\ Len(after) = Len(before) + 1
    /\ SubSeq(after, 1, Len(before)) = before

Types(requests) == [ i \in 1..Len(requests) |-> requests[i].type ]

\* The transition table of the specification.
TransitionTable ==
    [ WaitTdlibParameters |-> "setTdlibParameters",
      WaitPhoneNumber |-> "setAuthenticationPhoneNumber",
      WaitEmailAddress |-> "setAuthenticationEmailAddress",
      WaitEmailCode |-> "checkAuthenticationEmailCode",
      WaitCode |-> "checkAuthenticationCode",
      WaitRegistration |-> "registerUser",
      WaitPassword |-> "checkAuthenticationPassword" ]

\* Request r answers wait-state `state` with what the provider just returned
\* (`ans`, in order), or with the identity the client already holds.
CarriesCredential(r, state, ans, id, hash) ==
    /\ r.type = TransitionTable[state]
    /\ CASE state = "WaitTdlibParameters" ->
              IF ans = << >>
              THEN r.api_id = id /\ r.api_hash = hash
              ELSE /\ Len(ans) = 2
                   /\ ~PyInt(ans[1]).raised
                   /\ r.api_id = PyInt(ans[1]).value
                   /\ r.api_hash = ans[2]
         [] state = "WaitRegistration" ->
              Len(ans) = 2 /\ r.value = ans[1] /\ r.value2 = ans[2]
         [] OTHER ->
              Len(ans) = 1 /\ r.value = ans[1]

\* C1: from the poll of a wait-state event to the loop's next poll exactly one
\* request is submitted, of the type the transition table gives for the state
\* and carrying the credential just obtained: polling, branching and prompting
\* submit nothing, a wait-state event leads to the branch's prompt or send and
\* a prompt never leads back to the poll, and the send that leads back to the
\* poll submits that one request. No order of the states is assumed.
C1_WaitStateAnsweredByItsRequest ==
    [][ /\ pc \in { "auth_poll", "auth_event", "auth_input" } => sent' = sent
        /\ pc = "auth_event" /\ IsWaitEvent(event)
             => pc' \in { "auth_input", "auth_send", "exited" }
        /\ pc = "auth_input" => pc' \in { "auth_input", "auth_send", "raised", "exited" }
        /\ pc = "auth_send"
             => /\ IsWaitEvent(event)
                /\ \/ pc' = "exited" /\ sent' = sent
                   \/ /\ pc' = "auth_poll"
                      /\ OneMore(sent, sent')
                      /\ CarriesCredential(sent'[Len(sent')], event.auth, answers,
                                           api_id, api_hash)
      ]_vars

\* C1's case: the engine emitted WaitRegistration before WaitTdlibParameters and
\* each was answered by its request, the first with the names just typed.
C1_Witness ==
    /\ pc = "auth_poll"
    /\ Len(sent) = 3
    /\ sent[2].type = "registerUser"
    /\ sent[2].value = <<"7">>
    /\ sent[2].value2 = EmptyStr
    /\ sent[3].type = "setTdlibParameters"
    /\ sent[3].api_id = 7

\* C2: when the loop has polled an updateAuthorizationState with state Ready or
\* Closed, its next step leaves the loop: login returns, nothing is submitted
\* and the loop polls no more; and when the states the loop polled are exactly
\* WaitTdlibParameters, WaitPhoneNumber, Ready, what was submitted since login
\* began is getOption, setTdlibParameters, setAuthenticationPhoneNumber.
C2_ReadyOrClosedEndsLogin ==
    [][ pc = "auth_event" /\ IsAuthEvent(event) /\ event.auth \in { "Ready", "Closed" }
        /\ pc' # "exited"
          => /\ pc' = "idle"
             /\ returned' = "login"
             /\ sent' = sent
             /\ trace = << "WaitTdlibParameters", "WaitPhoneNumber", "Ready" >>
                  => /\ Len(sent) >= 3
                     /\ Types(SubSeq(sent, Len(sent) - 2, Len(sent)))
                          = << "getOption", "setTdlibParameters",
                               "setAuthenticationPhoneNumber" >>
      ]_vars

\* C2's case: login has returned on Ready after scenario A's two requests.
C2_Witness ==
    /\ pc = "idle"
    /\ returned = "login"
    /\ printed = "Authorization complete! You are now logged in."
    /\ Types(sent) = << "getOption", "setTdlibParameters",
                        "setAuthenticationPhoneNumber" >>
    /\ sent[3].value = <<"7">>

\* C3: when the loop has polled an updateAuthorizationState with state
\* WaitPremiumPurchase, its next step leaves the loop: no input() is entered,
\* nothing is submitted and the loop polls no more.
C3_PremiumPurchaseEndsLogin ==
    [][ pc = "auth_event" /\ IsAuthEvent(event) /\ event.auth = "WaitPremiumPurchase"
        /\ pc' # "exited"
          => /\ pc' = "idle"
             /\ returned' = "login"
             /\ sent' = sent
             /\ prompt' = "-"
             /\ answers' = << >>
      ]_vars

\* C3's case: login has returned on WaitPremiumPurchase, in the middle of a
\* flow that had already answered a wait-state.
C3_Witness ==
    /\ pc = "idle"
    /\ returned = "login"
    /\ printed = "Telegram Premium subscription is required."
    /\ Len(sent) = 2
    /\ sent[2].type = "setAuthenticationPhoneNumber"

\* The line login prints when the flow ends on `state`.
EndingLine ==
    [ Closed |-> "Authorization state closed.",
      WaitPremiumPurchase |-> "Telegram Premium subscription is required.",
      Ready |-> "Authorization complete! You are now logged in." ]

\* C4 as stated: what login hands its caller after the flow has ended on one of
\* WaitPremiumPurchase, Ready, Closed differs from what it hands over for each
\* of the other two endings, so that the caller can tell the ending from it.
C4_OutcomeTellsEnding ==
    pc = "idle" /\ returned = "login"
      => \A state \in ExitStates :
           EndingLine[state] # printed => LoginResult(state) # result

\* C4 amended: whichever of WaitPremiumPurchase, Ready, Closed ends the flow,
\* login returns None and raises nothing; the ending shows only in the line
\* login prints, which is a different one for each of the three.
C4_SameResultDistinctLine ==
    [][ pc = "auth_event" /\ pc' = "idle"
          => /\ IsAuthEvent(event) /\ event.auth \in ExitStates
             /\ result' = None
             /\ exc' = "-"
             /\ printed' = EndingLine[event.auth]
             /\ \A other \in ExitStates \ { event.auth } : EndingLine[other] # printed'
      ]_vars

\* C4's case: login has returned None on WaitPremiumPurchase as its first event.
C4_Witness ==
    /\ pc = "idle"
    /\ returned = "login"
    /\ result = None
    /\ printed = "Telegram Premium subscription is required."
    /\ Types(sent) = << "getOption" >>

\* C5: when invoke returns, the message it returns carries an @extra id, and
\* that id is the one this call generated, attached to the request it
\* submitted and waited for.
C5_InvokeReturnsItsOwnId ==
    [][ pc = "wait" /\ pc' = "idle"
          => /\ returned' = "invoke"
             /\ result' # None
             /\ result'.extra \in Ids
             /\ result'.extra = extra
             /\ result'.extra = sent[Len(sent)].extra
      ]_vars

\* C5's case: invoke has returned the answer to its request after wait() had
\* polled a message that was not it.
C5_Witness ==
    /\ pc = "idle"
    /\ returned = "invoke"
    /\ result.type = "ok"
    /\ result.extra = sent[Len(sent)].extra
    /\ discarded = 1

\* C6 as stated: no message that wait() polls and does not return is lost: each
\* is put where a later receive() or the authentication loop still gets it.
\* The client keeps no such place, so this says wait() drops no message.
C6_NoPolledMessageLost == discarded = 0

C8_InterruptCancelsLogin ==
    [][ /\ interrupted = "-" /\ interrupted' \in AuthPcs
             => pc' = "exited" /\ exit_status' = "0" /\ sent' = sent
        /\ pc = "exited" => sent' = sent
      ]_vars

\* C8's case: Ctrl+C in an input() after the loop had already answered a state.
C8_Witness ==
    /\ pc = "exited"
    /\ interrupted = "auth_input"
    /\ exit_status = "0"
    /\ Len(sent) = 2

\* The client has unwound: login was cancelled, an interrupt left a call as
\* KeyboardInterrupt, or login returned at the end of the flow.
Unwound ==
    \/ pc = "exited" /\ interrupted # "-"
    \/ pc = "raised" /\ exc = "KeyboardInterrupt"
    \/ pc = "idle" /\ returned = "login"

\* C9 as stated: on every path on which the client unwinds, the session handle
\* has been released exactly once.
C9_HandleReleasedOnceOnUnwind == Unwound => released = 1

\* C10 as stated: the process ends in a call of the log callback when the
\* severity is 0, and nothing is submitted afterwards; a call with another
\* severity changes nothing, so the process never ends in one.
C10_OnlyFatalLogEndsProcess ==
    /\ log_level = 0 => pc = "exited"
    /\ log_level # 0 => log_level = -1

\* C11: bytes that do not decode are never handed on as a message, neither as
\* the loop's event nor as a call's result; the poll that meets them, in wait()
\* under invoke, in the authentication loop or in receive(), leaves the client as
\* a JSONDecodeError to the caller: the process keeps running, nothing is
\* submitted, and the awaited id and the client's identity are as they were.
C11_DecodingErrorSurfaced ==
    [][ /\ event' # Undecodable
        /\ result' # Undecodable
        /\ exc' = "JSONDecodeError" /\ exc # "JSONDecodeError"
             => /\ pc \in { "idle", "wait", "auth_poll" }
                /\ pc' = "raised"
                /\ exit_status' = "running" /\ exit_status = "running"
                /\ sent' = sent
                /\ extra' = extra
                /\ << api_id', api_hash', client_id' >> = << api_id, api_hash, client_id >>
      ]_vars

\* C11's case: undecodable bytes met by wait() under an invoke made after a
\* login, once wait() had already skipped a message.
C11_Witness ==
    /\ pc = "raised"
    /\ exc = "JSONDecodeError"
    /\ extra \in Ids
    /\ discarded = 1
    /\ Len(sent) = 2
    /\ sent[1].type = "getOption"
    /\ sent[2].extra = extra

Count(seq, x) == Cardinality({ i \in 1..Len(seq) : seq[i] = x })

\* The requests submitted since the running login's getOption.
SinceLogin ==
    LET starts == { i \in 1..Len(sent) : sent[i].type = "getOption" }
        start == IF starts = {} THEN 0
                 ELSE CHOOSE i \in starts : \A j \in starts : j <= i
    IN SubSeq(sent, start + 1, Len(sent))

\* How many input() calls the branch of a wait-state makes.
PromptsOf(state) ==
    IF state = "WaitRegistration" THEN 2 ELSE 1

\* C12: in the authentication loop the requests submitted for a wait-state are
\* as many as the updateAuthorizationState events with that state the loop has
\* polled, less the event whose branch is still running; an engine that emits
\* the same wait-state k times is answered with k requests, each after prompts
\* of its own, and between two polls at most the one request is submitted.
C12_NoAutomaticRetry ==
    pc \in AuthPcs /\ trace # << "..." >>
      => /\ \A s \in WaitStates :
              Count(Types(SinceLogin), TransitionTable[s])
                = Count(trace, s)
                    - (IF pc # "auth_poll" /\ IsAuthEvent(event) /\ event.auth = s
                       THEN 1 ELSE 0)
         /\ pc = "auth_poll" => prompt = "-" /\ answers = << >>
         /\ pc = "auth_send" /\ event.auth # "WaitTdlibParameters"
              => Len(answers) = PromptsOf(event.auth)

\* C12's case: the engine emitted WaitCode twice; the client prompted twice and
\* submitted two checkAuthenticationCode requests, with what was typed each time.
C12_Witness ==
    /\ pc = "auth_poll"
    /\ trace = << "WaitCode", "WaitCode" >>
    /\ Types(sent) = << "getOption", "checkAuthenticationCode", "checkAuthenticationCode" >>
    /\ sent[2].value = <<"7">>
    /\ sent[3].value = EmptyStr

\* C13 as stated: every setTdlibParameters request submitted carries a present
\* client identity, an api_id that is not zero and an api_hash that is not
\* empty, whatever the provider returned when the identity was asked for.
C13_ParametersCarryIdentity ==
    \A i \in 1..Len(sent) :
        sent[i].type = "setTdlibParameters"
          => TruthyInt(sent[i].api_id) /\ TruthyStr(sent[i].api_hash)

\* C14: wait() goes on to another poll only past a message that does not carry
\* the awaited id: the message it has just polled and holds in `event` then is
\* nothing, has no @extra, or has another id, whatever its @type. So the first
\* polled message with the awaited id, of a push type or not, is not passed
\* over: the step that polls it ends wait(), which returns it as the call's
\* result, polls no more and submits nothing.
C14_MatchingMessageIsTheResponse ==
    [][ pc = "wait"
          => /\ pc' = "wait"
                  => event' = None \/ event'.extra \in (Extras \ { extra, BadExtra })
             /\ pc' = "idle"
                  => /\ result' \in EngineMessages
                     /\ result'.extra = extra
                     /\ returned' = "invoke"
                     /\ event' = None
                     /\ sent' = sent
                     /\ discarded' = discarded
      ]_vars

\* C14's case: invoke has returned a message that carries its id and whose
\* type is updateAuthorizationState, after wait() had skipped another message.
C14_Witness ==
    /\ pc = "idle"
    /\ returned = "invoke"
    /\ result.type = "updateAuthorizationState"
    /\ result.extra = sent[Len(sent)].extra
    /\ discarded = 1

\* C15: the session handle is the one made at construction in every state: no
\* step of execute, send, invoke, receive, login or wait changes client_id, and
\* every request handed to td_send, by send, by invoke and by login's sends,
\* was handed over with that handle.
C15_OneHandleForEverySubmit ==
    [][ /\ client_id' = client_id
        /\ client_id = ClientId
        /\ \A i \in 1..Len(sent') : sent'[i].client_id = client_id
      ]_vars

\* C15's case: a login, an invoke and a send have each submitted a request.
C15_Witness ==
    /\ pc = "idle"
    /\ returned = "send"
    /\ Len(sent) = 3
    /\ sent[1].type = "getOption"
    /\ sent[2].extra \in Ids
    /\ sent[3].extra = NoExtra
    /\ \A i \in 1..3 : sent[i].client_id = client_id

C17_WaitOutlastsOtherMessages ==
    [][ pc = "wait" /\ pc' = "raised"
          => exc' \in { "JSONDecodeError", "KeyboardInterrupt" }
      ]_vars

ExitEventPolled ==
    pc = "auth_event" /\ IsAuthEvent(event) /\ event.auth \in ExitStates

\* C18: login returns only out of an iteration of the loop that has polled an
\* updateAuthorizationState with state Ready, Closed or WaitPremiumPurchase, and
\* once the loop has polled one, login returns (unless the process ends first);
\* an error response takes the loop to its next poll with nothing submitted, so
\* a loop that is fed no such state goes on polling and login does not return.
C18_LoginReturnsOnExitStateOnly ==
    /\ [][ /\ pc \in AuthPcs /\ pc' = "idle" => ExitEventPolled /\ returned' = "login"
           /\ pc = "auth_event" /\ event.type = "error"
                => pc' \in { "auth_poll", "exited" } /\ sent' = sent
         ]_vars
    /\ ExitEventPolled ~> ((pc = "idle" /\ returned = "login") \/ pc = "exited")

\* C18's case: a credential request answered by an error response only, which
\* the loop has polled and is about to pass over.
C18_Witness ==
    /\ pc = "auth_event"
    /\ event.type = "error"
    /\ Len(sent) = 2
    /\ sent[2].type = "checkAuthenticationCode"
    /\ trace = << "WaitCode" >>

\* What the loop has no branch for: a poll that gave nothing, a message whose
\* type is not updateAuthorizationState, an authorization state outside the ten.
Unhandled(ev) ==
    \/ ev = None
    \/ ev.type # "updateAuthorizationState"
    \/ ev.auth \notin (WaitStates \cup ExitStates)

\* C19: when what the loop has polled is nothing, a message of another type
\* (an error response, a message with an @extra id) or an authorization state
\* it has no branch for, the iteration ends there: nothing is submitted, no
\* input() is entered, api_id, api_hash and client_id are as before, login has
\* not returned, and the loop is at its next poll.
C19_UnhandledEventChangesNothing ==
    [][ pc = "auth_event" /\ Unhandled(event) /\ pc' # "exited"
          => /\ pc' = "auth_poll"
             /\ sent' = sent
             /\ prompt' = "-" /\ answers' = << >>
             /\ << api_id', api_hash', client_id' >> = << api_id, api_hash, client_id >>
             /\ << result', returned', exc' >> = << result, returned, exc >>
      ]_vars

\* C19's case: in the middle of a flow the loop polled Closing, passed over it
\* and is at its next poll, with the requests it had submitted before.
C19_Witness ==
    /\ pc = "auth_poll"
    /\ trace = << "WaitCode", "Closing" >>
    /\ Types(sent) = << "getOption", "checkAuthenticationCode" >>
    /\ event = None

====
